---- MODULE Spec2Model ----
(***************************************************************************)
(* Model of crates/payload/basic/src/builder_stack.rs: the Either sum      *)
(* type, BuildOutcome::map_payload and the PayloadBuilderStack combinator  *)
(* (try_build, build_empty_payload).                                       *)
(*                                                                         *)
(* The stack is a synchronous dispatcher over two inner builders.  The     *)
(* inner builders (and the inner Attributes::try_new) are trait            *)
(* implementations supplied by the caller: what each of them returns for   *)
(* the call at hand is an input, drawn from every value its return type    *)
(* admits.  Every invocation the stack makes is recorded in `calls`.       *)
(***************************************************************************)
EXTENDS Integers, Sequences, FiniteSets, TLC

\* ------------------------------------------------------------------ bounds
NumCached   == 2
NumCancel   == 2
NumAttrs    == 2
NumPayloads == 2
NumFees     == 2
NumErrors   == 2

\* ------------------------------------------------------------- value sets
\* client, pool, parent_block and extra_data are opaque to the stack, which only
\* clones them: two distinct values of each tell "the same" from "another"
Clients      == {"client_a", "client_b"}
Pools        == {"pool_a", "pool_b"}
ParentBlocks == {"block_a", "block_b"}
ExtraData    == {"extra_a", "extra_b"}
CachedReads  == 1..NumCached
CancelSigs   == 1..NumCancel
InnerAttrs   == 1..NumAttrs
InnerPayloads == 1..NumPayloads
Fees         == 1..NumFees
Tags         == {"Left", "Right"}

\* ----------------------------------------------------------------- Either
Left(v)  == [tag |-> "Left", val |-> v]
Right(v) == [tag |-> "Right", val |-> v]
Either(L, R) == {Left(l) : l \in L} \cup {Right(r) : r \in R}

\* ----------------------------------------------------------------- Option
None    == [some |-> FALSE]
Some(v) == [some |-> TRUE, val |-> v]
Option(S) == {None} \cup {Some(v) : v \in S}

\* ----------------------------------------------------------------- Result
Ok(v)  == [ok |-> TRUE, val |-> v]
Err(e) == [ok |-> FALSE, err |-> e]

\* errors an inner builder (or an inner Attributes::try_new) can return
InnerErrors == {[kind |-> "Inner", id |-> i] : i \in 1..NumErrors}

\* the io::Error the stack synthesizes at the end of try_build
TryBuildBothFailed ==
    [kind |-> "Other",
     msg  |-> "Both left and right builders failed to build the payload"]

\* the io::Error the stack synthesizes at the end of build_empty_payload
EmptyBothFailed ==
    [kind |-> "Other",
     msg  |-> "Failed to build empty payload with both left and right builders"]

\* ----------------------------------------------------------- BuildOutcome
Better(p, c)  == [kind |-> "Better", payload |-> p, cached_reads |-> c]
Aborted(f, c) == [kind |-> "Aborted", fees |-> f, cached_reads |-> c]
Cancelled     == [kind |-> "Cancelled"]

BuildOutcomes(P) ==
    {Better(p, c) : p \in P, c \in CachedReads}
    \cup {Aborted(f, c) : f \in Fees, c \in CachedReads}
    \cup {Cancelled}

\* what an inner builder's try_build can return
TryBuildReturns ==
    {Ok(o) : o \in BuildOutcomes(InnerPayloads)} \cup {Err(e) : e \in InnerErrors}

\* what an inner builder's build_empty_payload can return
EmptyReturns ==
    {Ok(p) : p \in InnerPayloads} \cup {Err(e) : e \in InnerErrors}

\* what an inner Attributes::try_new can return
TryNewReturns ==
    {Ok(a) : a \in InnerAttrs} \cup {Err(e) : e \in InnerErrors}

\* ------------------------------------------- PayloadConfig, BuildArguments
PayloadConfigs ==
    [parent_block : ParentBlocks, extra_data : ExtraData,
     attributes : Either(InnerAttrs, InnerAttrs)]

BuildArgumentsSet ==
    [client : Clients, pool : Pools, cached_reads : CachedReads,
     config : PayloadConfigs, cancel : CancelSigs,
     best_payload : Option(Either(InnerPayloads, InnerPayloads))]

\* ------------------------------------------------------------ map_payload
\* BuildOutcome::map_payload(self, f); f is one of the Either constructors.
\* `applied` lists the payloads f was called on.
ApplyF(f, p) == [tag |-> f, val |-> p]

\* map_payload with the Aborted arm lost to a catch-all returning Cancelled
map_payload_catchall(self, f) ==
    IF self.kind = "Better"
    THEN [ret |-> Better(ApplyF(f, self.payload), self.cached_reads),
          applied |-> <<self.payload>>]
    ELSE [ret |-> Cancelled, applied |-> <<>>]

map_payload(self, f) ==
    IF self.kind = "Better"
    THEN [ret |-> Better(ApplyF(f, self.payload), self.cached_reads),
          applied |-> <<self.payload>>]
    ELSE IF self.kind = "Aborted"
    THEN [ret |-> Aborted(self.fees, self.cached_reads), applied |-> <<>>]
    ELSE [ret |-> Cancelled, applied |-> <<>>]

\* ------------------------------------------------------- Either::try_new
\* Either::try_new whose left arm lifts the error with Either::Right
Either_try_new_wrong_err_tag(inner, parent, rpc_payload_attributes) ==
    IF rpc_payload_attributes.tag = "Left"
    THEN [ret |-> IF inner.left.ok THEN Ok(Left(inner.left.val))
                  ELSE Err(Right(inner.left.err)),
          calls |-> <<[side |-> "left", method |-> "try_new",
                       parent |-> parent, raw |-> rpc_payload_attributes.val]>>]
    ELSE [ret |-> IF inner.right.ok THEN Ok(Right(inner.right.val))
                  ELSE Err(Right(inner.right.err)),
          calls |-> <<[side |-> "right", method |-> "try_new",
                       parent |-> parent, raw |-> rpc_payload_attributes.val]>>]

\* inner = [left |-> what L::try_new returns, right |-> what R::try_new returns]
Either_try_new(inner, parent, rpc_payload_attributes) ==
    IF rpc_payload_attributes.tag = "Left"
    THEN [ret |-> IF inner.left.ok THEN Ok(Left(inner.left.val))
                  ELSE Err(Left(inner.left.err)),
          calls |-> <<[side |-> "left", method |-> "try_new",
                       parent |-> parent, raw |-> rpc_payload_attributes.val]>>]
    ELSE [ret |-> IF inner.right.ok THEN Ok(Right(inner.right.val))
                  ELSE Err(Right(inner.right.err)),
          calls |-> <<[side |-> "right", method |-> "try_new",
                       parent |-> parent, raw |-> rpc_payload_attributes.val]>>]

\* --------------------------------------------------- PayloadBuilderStack
\* A builder is represented by what it returns for the call at hand.
new(left, right) == [left |-> left, right |-> right]

\* best_payload.and_then(|p| if let Either::Left(p) = p { Some(p) } else { None })
narrow_left(best_payload) ==
    IF best_payload.some /\ best_payload.val.tag = "Left"
    THEN Some(best_payload.val.val) ELSE None

\* narrowing that unwraps the previous best whatever its tag
narrow_right_any_tag(best_payload) ==
    IF best_payload.some THEN Some(best_payload.val.val) ELSE None

\* best_payload.and_then(|p| if let Either::Right(p) = p { Some(p) } else { None })
narrow_right(best_payload) ==
    IF best_payload.some /\ best_payload.val.tag = "Right"
    THEN Some(best_payload.val.val) ELSE None

\* left_args that hands the inner builder a new, independent cancel signal
left_args_fresh_cancel(args) ==
    [client       |-> args.client,
     pool         |-> args.pool,
     cached_reads |-> args.cached_reads,
     config       |-> [parent_block |-> args.config.parent_block,
                       extra_data   |-> args.config.extra_data,
                       attributes   |-> args.config.attributes.val],
     cancel       |-> args.cancel + NumCancel,
     best_payload |-> narrow_left(args.best_payload)]

left_args(args) ==
    [client       |-> args.client,
     pool         |-> args.pool,
     cached_reads |-> args.cached_reads,
     config       |-> [parent_block |-> args.config.parent_block,
                       extra_data   |-> args.config.extra_data,
                       attributes   |-> args.config.attributes.val],
     cancel       |-> args.cancel,
     best_payload |-> narrow_left(args.best_payload)]

right_args(args) ==
    [client       |-> args.client,
     pool         |-> args.pool,
     cached_reads |-> args.cached_reads,
     config       |-> [parent_block |-> args.config.parent_block,
                       extra_data   |-> args.config.extra_data,
                       attributes   |-> args.config.attributes.val],
     cancel       |-> args.cancel,
     best_payload |-> narrow_right(args.best_payload)]

InvokeTryBuild(side, a) == [side |-> side, method |-> "try_build", args |-> a]

\* try_build that goes on to the right builder when the left one fails
try_build_fallback(self, args) ==
    IF args.config.attributes.tag = "Left"
    THEN LET r == self.left
             c == <<InvokeTryBuild("left", left_args(args))>>
             c2 == c \o <<InvokeTryBuild("right", right_args(args))>>
         IN  IF r.ok /\ r.val.kind = "Better"
             THEN [ret |-> Ok(Better(Left(r.val.payload), r.val.cached_reads)),
                   calls |-> c]
             ELSE IF r.ok
             THEN [ret |-> Ok(map_payload(r.val, "Left").ret), calls |-> c]
             ELSE IF self.right.ok
             THEN [ret |-> Ok(map_payload(self.right.val, "Right").ret), calls |-> c2]
             ELSE [ret |-> Err(self.right.err), calls |-> c2]
    ELSE LET r == self.right
             c == <<InvokeTryBuild("right", right_args(args))>>
         IN  IF r.ok /\ r.val.kind = "Better"
             THEN [ret |-> Ok(Better(Right(r.val.payload), r.val.cached_reads)),
                   calls |-> c]
             ELSE IF r.ok
             THEN [ret |-> Ok(map_payload(r.val, "Right").ret), calls |-> c]
             ELSE [ret |-> Err(r.err), calls |-> c]

\* try_build that turns a Cancelled outcome of the right builder into an error
try_build_cancel_as_err(self, args) ==
    IF args.config.attributes.tag = "Left"
    THEN LET r == self.left
             c == <<InvokeTryBuild("left", left_args(args))>>
         IN  IF r.ok /\ r.val.kind = "Better"
             THEN [ret |-> Ok(Better(Left(r.val.payload), r.val.cached_reads)),
                   calls |-> c]
             ELSE IF r.ok
             THEN [ret |-> Ok(map_payload(r.val, "Left").ret), calls |-> c]
             ELSE [ret |-> Err(TryBuildBothFailed), calls |-> c]
    ELSE LET r == self.right
             c == <<InvokeTryBuild("right", right_args(args))>>
         IN  IF r.ok /\ r.val.kind = "Better"
             THEN [ret |-> Ok(Better(Right(r.val.payload), r.val.cached_reads)),
                   calls |-> c]
             ELSE IF r.ok /\ r.val.kind = "Aborted"
             THEN [ret |-> Ok(map_payload(r.val, "Right").ret), calls |-> c]
             ELSE IF r.ok
             THEN [ret |-> Err(TryBuildBothFailed), calls |-> c]
             ELSE [ret |-> Err(r.err), calls |-> c]

try_build(self, args) ==
    IF args.config.attributes.tag = "Left"
    THEN LET r == self.left
             c == <<InvokeTryBuild("left", left_args(args))>>
         IN  IF r.ok /\ r.val.kind = "Better"
             THEN [ret |-> Ok(Better(Left(r.val.payload), r.val.cached_reads)),
                   calls |-> c]
             ELSE IF r.ok
             THEN [ret |-> Ok(map_payload(r.val, "Left").ret), calls |-> c]
             ELSE [ret |-> Err(TryBuildBothFailed), calls |-> c]
    ELSE LET r == self.right
             c == <<InvokeTryBuild("right", right_args(args))>>
         IN  IF r.ok /\ r.val.kind = "Better"
             THEN [ret |-> Ok(Better(Right(r.val.payload), r.val.cached_reads)),
                   calls |-> c]
             ELSE IF r.ok
             THEN [ret |-> Ok(map_payload(r.val, "Right").ret), calls |-> c]
             ELSE [ret |-> Err(r.err), calls |-> c]

InvokeEmpty(side, client, config) ==
    [side |-> side, method |-> "build_empty_payload",
     client |-> client, config |-> config]

\* build_empty_payload whose left arm returns the left builder's error
build_empty_payload_left_err(self, client, config) ==
    IF config.attributes.tag = "Left"
    THEN LET r == self.left
             c == <<InvokeEmpty("left", client,
                        [attributes   |-> config.attributes.val,
                         parent_block |-> config.parent_block,
                         extra_data   |-> config.extra_data])>>
         IN  IF r.ok
             THEN [ret |-> Ok(Left(r.val)), calls |-> c]
             ELSE [ret |-> Err(r.err), calls |-> c]
    ELSE LET r == self.right
             c == <<InvokeEmpty("right", client,
                        [parent_block |-> config.parent_block,
                         extra_data   |-> config.extra_data,
                         attributes   |-> config.attributes.val])>>
         IN  IF r.ok
             THEN [ret |-> Ok(Right(r.val)), calls |-> c]
             ELSE [ret |-> Err(r.err), calls |-> c]

build_empty_payload(self, client, config) ==
    IF config.attributes.tag = "Left"
    THEN LET r == self.left
             c == <<InvokeEmpty("left", client,
                        [attributes   |-> config.attributes.val,
                         parent_block |-> config.parent_block,
                         extra_data   |-> config.extra_data])>>
         IN  IF r.ok
             THEN [ret |-> Ok(Left(r.val)), calls |-> c]
             ELSE [ret |-> Err(EmptyBothFailed), calls |-> c]
    ELSE LET r == self.right
             c == <<InvokeEmpty("right", client,
                        [parent_block |-> config.parent_block,
                         extra_data   |-> config.extra_data,
                         attributes   |-> config.attributes.val])>>
         IN  IF r.ok
             THEN [ret |-> Ok(Right(r.val)), calls |-> c]
             ELSE [ret |-> Err(r.err), calls |-> c]

\* ------------------------------------------------------------------ state
VARIABLES
    pc,      \* "call": the request is about to be made; "returned": it has returned
    input,   \* the operation requested and its arguments
    inner,   \* what the left and the right inner implementation return for it
    calls,   \* the invocations of inner implementations, in order
    applied, \* the payloads map_payload's transform was applied to
    result   \* the value returned to the caller

vars == <<pc, input, inner, calls, applied, result>>

TryBuildInputs == {[op |-> "try_build", args |-> a] : a \in BuildArgumentsSet}

EmptyInputs ==
    {[op |-> "build_empty_payload", client |-> c, config |-> g] :
        c \in Clients, g \in PayloadConfigs}

TryNewInputs ==
    {[op |-> "try_new", parent |-> p, rpc |-> r] :
        p \in ParentBlocks, r \in Either(InnerAttrs, InnerAttrs)}

MapInputs ==
    {[op |-> "map_payload", outcome |-> o, f |-> f] :
        o \in BuildOutcomes(InnerPayloads), f \in Tags}

Pending == [pending |-> TRUE]

Init ==
    /\ pc = "call"
    /\ input \in TryBuildInputs \cup EmptyInputs \cup TryNewInputs \cup MapInputs
    /\ inner = Pending
    /\ calls = <<>>
    /\ applied = <<>>
    /\ result = Pending

TryBuild ==
    /\ pc = "call"
    /\ input.op = "try_build"
    /\ \E l \in TryBuildReturns, r \in TryBuildReturns :
          LET out == try_build(new(l, r), input.args)
          IN  /\ inner' = new(l, r)
              /\ calls' = out.calls
              /\ result' = out.ret
    /\ pc' = "returned"
    /\ UNCHANGED <<input, applied>>

BuildEmptyPayload ==
    /\ pc = "call"
    /\ input.op = "build_empty_payload"
    /\ \E l \in EmptyReturns, r \in EmptyReturns :
          LET out == build_empty_payload(new(l, r), input.client, input.config)
          IN  /\ inner' = new(l, r)
              /\ calls' = out.calls
              /\ result' = out.ret
    /\ pc' = "returned"
    /\ UNCHANGED <<input, applied>>

TryNew ==
    /\ pc = "call"
    /\ input.op = "try_new"
    /\ \E l \in TryNewReturns, r \in TryNewReturns :
          LET out == Either_try_new([left |-> l, right |-> r], input.parent, input.rpc)
          IN  /\ inner' = [left |-> l, right |-> r]
              /\ calls' = out.calls
              /\ result' = out.ret
    /\ pc' = "returned"
    /\ UNCHANGED <<input, applied>>

MapPayload ==
    /\ pc = "call"
    /\ input.op = "map_payload"
    /\ LET out == map_payload(input.outcome, input.f)
       IN  /\ result' = out.ret
           /\ applied' = out.applied
    /\ pc' = "returned"
    /\ UNCHANGED <<input, inner, calls>>

Next == TryBuild \/ BuildEmptyPayload \/ TryNew \/ MapPayload

Spec == Init /\ [][Next]_vars

\* ----------------------------------------------------------------- claims
Returned(op) == pc = "returned" /\ input.op = op

\* the tag of the attributes of the request
AttrTag ==
    IF input.op = "try_build" THEN input.args.config.attributes.tag
    ELSE input.config.attributes.tag

SideOf(tag) == IF tag = "Left" THEN "left" ELSE "right"

\* what the inner builder addressed by the attribute tag returned
Addressed == IF AttrTag = "Left" THEN inner.left ELSE inner.right

\* C1: every try_build and build_empty_payload call invokes exactly one inner
\* builder, exactly once, and it is the one matching the tag of the
\* attributes, whatever either builder returns.
C1_ExactlyOneMatchingBuilder ==
    (Returned("try_build") \/ Returned("build_empty_payload")) =>
        /\ Len(calls) = 1
        /\ calls[1].method = input.op
        /\ calls[1].side = SideOf(AttrTag)

\* Left-tagged try_build; the left builder failed, the right one would have
\* succeeded, and only the left one was invoked
C1_Witness ==
    /\ Returned("try_build")
    /\ AttrTag = "Left"
    /\ ~inner.left.ok
    /\ inner.right.ok
    /\ Len(calls) = 1
    /\ calls[1].side = "left"

\* C2: when the addressed builder's try_build returns Ok(o), the stack returns
\* Ok(o): Better keeps its payload (wrapped with the attributes' tag) and its
\* cached_reads, Aborted keeps its fees and cached_reads, Cancelled is
\* returned as Ok(Cancelled); the other builder is not invoked.
C2_OkOutcomeReturnedUnchanged ==
    (Returned("try_build") /\ Addressed.ok) =>
        /\ result.ok
        /\ \A i \in 1..Len(calls) : calls[i].side = SideOf(AttrTag)
        /\ Addressed.val.kind = "Better" =>
              result.val = Better([tag |-> AttrTag, val |-> Addressed.val.payload],
                                  Addressed.val.cached_reads)
        /\ Addressed.val.kind = "Aborted" =>
              result.val = Aborted(Addressed.val.fees, Addressed.val.cached_reads)
        /\ Addressed.val.kind = "Cancelled" => result = Ok(Cancelled)

\* the right builder was addressed and cancelled; the stack returned Ok(Cancelled)
C2_Witness ==
    /\ Returned("try_build")
    /\ AttrTag = "Right"
    /\ inner.right = Ok(Cancelled)
    /\ result = Ok(Cancelled)

\* C3 (as claimed): when the left builder's try_build returns Err, the right
\* builder is then called and the stack returns what the right builder
\* returns (same outcome, same payload, same cached_reads, or same error).
C3_FallbackToRight ==
    (Returned("try_build") /\ calls[1].side = "left" /\ ~inner.left.ok) =>
        /\ \E i \in 1..Len(calls) : calls[i].side = "right"
        /\ result.ok = inner.right.ok
        /\ inner.right.ok =>
              /\ result.val.kind = inner.right.val.kind
              /\ inner.right.val.kind = "Better" =>
                    /\ result.val.payload.val = inner.right.val.payload
                    /\ result.val.cached_reads = inner.right.val.cached_reads
              /\ inner.right.val.kind = "Aborted" =>
                    /\ result.val.fees = inner.right.val.fees
                    /\ result.val.cached_reads = inner.right.val.cached_reads
        /\ ~inner.right.ok => result.err = inner.right.err

\* C4: a previous best_payload whose tag differs from the attributes' tag is
\* treated as absent: the inner builder receives best_payload = None, and
\* the inner arguments and the result are those of the same call made with
\* no best_payload; a best_payload of the matching tag is passed unwrapped.
C4_BestPayloadNarrowed ==
    Returned("try_build") =>
        LET a      == input.args
            noBest == [a EXCEPT !.best_payload = None]
        IN  /\ (a.best_payload.some /\ a.best_payload.val.tag # AttrTag) =>
                  /\ calls[1].args.best_payload = None
                  /\ calls = try_build(inner, noBest).calls
                  /\ result = try_build(inner, noBest).ret
            /\ (a.best_payload.some /\ a.best_payload.val.tag = AttrTag) =>
                  calls[1].args.best_payload = Some(a.best_payload.val.val)
            /\ ~a.best_payload.some => calls[1].args.best_payload = None

\* Right-tagged attributes with a Left-tagged previous best: the right
\* builder saw no previous best
C4_Witness ==
    /\ Returned("try_build")
    /\ AttrTag = "Right"
    /\ input.args.best_payload.some
    /\ input.args.best_payload.val.tag = "Left"
    /\ calls[1].side = "right"
    /\ calls[1].args.best_payload = None

\* C5: map_payload is structure-preserving: Better{p, c} gives Better{f(p), c},
\* Aborted{fees, c} gives Aborted{fees, c} with f not applied, Cancelled
\* gives Cancelled with f not applied.
C5_MapPayloadStructure ==
    Returned("map_payload") =>
        LET o == input.outcome
        IN  /\ o.kind = "Better" =>
                  /\ result = Better([tag |-> input.f, val |-> o.payload], o.cached_reads)
                  /\ applied = <<o.payload>>
            /\ o.kind = "Aborted" =>
                  /\ result = Aborted(o.fees, o.cached_reads)
                  /\ applied = <<>>
            /\ o.kind = "Cancelled" =>
                  /\ result = Cancelled
                  /\ applied = <<>>

\* an Aborted outcome was mapped and came back with its fees and cached_reads
C5_Witness ==
    /\ Returned("map_payload")
    /\ input.outcome.kind = "Aborted"
    /\ result.kind = "Aborted"
    /\ result.fees = input.outcome.fees
    /\ result.cached_reads = input.outcome.cached_reads

\* C6 (as claimed): when the left builder's build_empty_payload fails and the
\* right builder's succeeds with payload Q, the stack calls the right builder
\* and returns Ok(Q).
C6_EmptyFallbackToRight ==
    (Returned("build_empty_payload") /\ calls[1].side = "left"
        /\ ~inner.left.ok /\ inner.right.ok) =>
        /\ \E i \in 1..Len(calls) : calls[i].side = "right"
        /\ result.ok
        /\ result.val.val = inner.right.val

\* C7 (as claimed): when the builder addressed by the attribute tag returns
\* Err(e) from try_build, the stack returns Err(e), for either tag.
C7_AddressedErrorPropagated ==
    (Returned("try_build") /\ ~Addressed.ok) => result = Err(Addressed.err)

\* C8: Either::try_new calls only the try_new of the side named by the tag of
\* the raw attributes, with the same parent and the unwrapped raw attributes,
\* and returns Ok(tag(a)) or Err(tag(e)) for that side's Ok(a) or Err(e).
C8_TryNewTagPreserved ==
    Returned("try_new") =>
        LET tag == input.rpc.tag
            r   == IF tag = "Left" THEN inner.left ELSE inner.right
        IN  /\ Len(calls) = 1
            /\ calls[1].side = SideOf(tag)
            /\ calls[1].parent = input.parent
            /\ calls[1].raw = input.rpc.val
            /\ r.ok => result = Ok([tag |-> tag, val |-> r.val])
            /\ ~r.ok => result = Err([tag |-> tag, val |-> r.err])

\* Left raw attributes rejected by L::try_new: the error comes back tagged Left
C8_Witness ==
    /\ Returned("try_new")
    /\ input.rpc.tag = "Left"
    /\ ~inner.left.ok
    /\ ~result.ok
    /\ result.err.tag = "Left"
    /\ result.err.val = inner.left.err

\* C9: tag-dispatched build_empty_payload: left success returns Left(payload),
\* right success returns Right(payload), a right failure is returned
\* unchanged, a left failure is swallowed, the right builder is not invoked
\* and the generic composition error is returned.
C9_EmptyPayloadDispatch ==
    Returned("build_empty_payload") =>
        /\ (AttrTag = "Left" /\ inner.left.ok) => result = Ok(Left(inner.left.val))
        /\ (AttrTag = "Right" /\ inner.right.ok) => result = Ok(Right(inner.right.val))
        /\ (AttrTag = "Right" /\ ~inner.right.ok) => result = Err(inner.right.err)
        /\ (AttrTag = "Left" /\ ~inner.left.ok) =>
              /\ result = Err(EmptyBothFailed)
              /\ \A i \in 1..Len(calls) : calls[i].side # "right"

\* Left-tagged build_empty_payload, the left builder failed: composition error
C9_Witness ==
    /\ Returned("build_empty_payload")
    /\ AttrTag = "Left"
    /\ ~inner.left.ok
    /\ result = Err(EmptyBothFailed)

\* C10: the arguments the inner builder receives from try_build carry the
\* outer call's cancel signal, client, pool, cached_reads, parent_block and
\* extra_data; attributes is the outer attributes without its tag.
C10_InnerArgumentsFrame ==
    Returned("try_build") =>
        LET a == input.args
            g == calls[1].args
        IN  /\ g.cancel = a.cancel
            /\ g.client = a.client
            /\ g.pool = a.pool
            /\ g.cached_reads = a.cached_reads
            /\ g.config.parent_block = a.config.parent_block
            /\ g.config.extra_data = a.config.extra_data
            /\ g.config.attributes = a.config.attributes.val

\* the left builder was invoked with the outer call's cancel signal
C10_Witness ==
    /\ Returned("try_build")
    /\ AttrTag = "Left"
    /\ calls[1].side = "left"
    /\ calls[1].args.cancel = input.args.cancel
    /\ calls[1].args.cached_reads = input.args.cached_reads

====
